---- MODULE Spec2Model ----
(***************************************************************************)
(* Model of the Databricks planning app (src/databricks_utils.py,          *)
(* src/layout.py): one editing session (table-name input, AG-Grid rowData, *)
(* changed-rows-store, the two status outputs) working against one Delta   *)
(* table and the primary-key metadata table, next to one other writer.     *)
(*                                                                         *)
(* Python strings that the code parses (table names, rowId, date strings)  *)
(* are sequences of one-character strings; column names and message texts  *)
(* are never parsed and are plain strings.                                 *)
(***************************************************************************)
EXTENDS Integers, Sequences, FiniteSets, Bags, TLC

VARIABLES
    target_table,        \* rows of the Delta table the session edits, in storage order
    target_schema,       \* schema of that table
    meta_table,          \* rows of advancinglake.default.databricks_plan_config_table
    meta_available,      \* whether spark.table can read that table
    table_name_input,    \* "table-name-input".value
    rowData,             \* "table-grid".rowData
    columnDefs,          \* "table-grid".columnDefs
    changed_rows_store,  \* "changed-rows-store".data
    loading_output_1,    \* "loading-output-1".children (load status)
    loading_output_2,    \* "loading-output-2".children (save status)
    edited_cells,        \* (grid position, column) of the cells edited since the last load
    last,                \* the handler that ran last and what it handed to the backend
    other_session        \* position of the other session: "editing", then "saved"

vars == <<target_table, target_schema, meta_table, meta_available, table_name_input, rowData, columnDefs,
          changed_rows_store, loading_output_1, loading_output_2, edited_cells, last,
          other_session>>

----------------------------------------------------------------------------
(* Bounds of the model.                                                    *)

MaxChanged == 2       \* entries of changed-rows-store
MaxNameLen == 5       \* characters of a table identifier handed to the key resolver
MaxFields == 2        \* fields of a schema handed to the schema translator

----------------------------------------------------------------------------
(* Python built-ins the code relies on.                                    *)

Digits == <<"0", "1", "2", "3", "4", "5", "6", "7", "8", "9">>

IsDigit(c) == \E i \in 1..10 : Digits[i] = c

DigitVal(c) == (CHOOSE i \in 1..10 : Digits[i] = c) - 1

AllDigits(s) == \A i \in 1..Len(s) : IsDigit(s[i])

RECURSIVE DecVal(_)
DecVal(s) == IF s = <<>> THEN 0
             ELSE 10 * DecVal(SubSeq(s, 1, Len(s) - 1)) + DigitVal(s[Len(s)])

Range(s) == {s[i] : i \in 1..Len(s)}

\* str.split(sep): the segments between the separators, empty ones included.
RECURSIVE SplitAcc(_, _, _, _)
SplitAcc(s, sep, cur, out) ==
    IF s = <<>> THEN Append(out, cur)
    ELSE IF Head(s) = sep THEN SplitAcc(Tail(s), sep, <<>>, Append(out, cur))
    ELSE SplitAcc(Tail(s), sep, Append(cur, Head(s)), out)

Split(s, sep) == SplitAcc(s, sep, <<>>, <<>>)

\* int(str): optional sign, then at least one decimal digit; ValueError otherwise.
PyInt(s) ==
    LET signed == s # <<>> /\ Head(s) \in {"-", "+"}
        body == IF signed THEN Tail(s) ELSE s
    IN  IF body = <<>> \/ ~AllDigits(body)
        THEN [raised |-> "ValueError", value |-> 0]
        ELSE [raised |-> "", value |-> IF signed /\ Head(s) = "-" THEN 0 - DecVal(body) ELSE DecVal(body)]

\* list[index]: 0-based, a negative index counts from the end, IndexError outside.
PyIndexOk(list, index) == index < Len(list) /\ index >= 0 - Len(list)

PyIndex(list, index) == IF index >= 0 THEN list[index + 1] ELSE list[Len(list) + index + 1]

----------------------------------------------------------------------------
(* Values of a DateDATE cell: a Python str, a datetime.date, or None.      *)

StrVal(s) == [k |-> "str", s |-> s]

DateVal(y, m, d) == [k |-> "date", y |-> y, m |-> m, d |-> d]

NoneVal == [k |-> "none"]

IsLeap(y) == (y % 4 = 0 /\ y % 100 # 0) \/ y % 400 = 0

DaysInMonth(y, m) ==
    IF m = 2 THEN (IF IsLeap(y) THEN 29 ELSE 28)
    ELSE IF m \in {4, 6, 9, 11} THEN 30 ELSE 31

\* Length of the month token at the head of s: the directive %m is the regular
\* expression 1[0-2]|0[1-9]|[1-9], and the format requires "-" right after it.
MonthLen(s) ==
    IF Len(s) >= 3 /\ s[3] = "-"
       /\ ((s[1] = "1" /\ s[2] \in {"0", "1", "2"}) \/ (s[1] = "0" /\ IsDigit(s[2]) /\ s[2] # "0"))
    THEN 2
    ELSE IF Len(s) >= 2 /\ s[2] = "-" /\ IsDigit(s[1]) /\ s[1] # "0" THEN 1
    ELSE 0

\* Length of the day token at the head of s: the directive %d is the regular
\* expression 3[0-1]|[1-2]\d|0[1-9]|[1-9]| [1-9], first alternative that matches.
DayLen(s) ==
    IF Len(s) >= 2 /\ s[1] = "3" /\ s[2] \in {"0", "1"} THEN 2
    ELSE IF Len(s) >= 2 /\ s[1] \in {"1", "2"} /\ IsDigit(s[2]) THEN 2
    ELSE IF Len(s) >= 2 /\ s[1] = "0" /\ IsDigit(s[2]) /\ s[2] # "0" THEN 2
    ELSE IF Len(s) >= 1 /\ IsDigit(s[1]) /\ s[1] # "0" THEN 1
    ELSE IF Len(s) >= 2 /\ s[1] = " " /\ IsDigit(s[2]) /\ s[2] # "0" THEN 2
    ELSE 0

DayDigits(tok) == IF Head(tok) = " " THEN Tail(tok) ELSE tok

\* datetime.strptime(date_str, "%Y-%m-%d").date()
strptime(date_str) ==
    IF date_str.k # "str" THEN [raised |-> "TypeError", value |-> NoneVal]
    ELSE
    LET s == date_str.s
        yOk == Len(s) >= 5 /\ AllDigits(SubSeq(s, 1, 4)) /\ s[5] = "-"
        afterY == SubSeq(s, 6, Len(s))
        ml == IF yOk THEN MonthLen(afterY) ELSE 0
        afterM == SubSeq(afterY, ml + 2, Len(afterY))
        dl == IF ml > 0 THEN DayLen(afterM) ELSE 0
        y == DecVal(SubSeq(s, 1, 4))
        m == DecVal(SubSeq(afterY, 1, ml))
        d == DecVal(DayDigits(SubSeq(afterM, 1, dl)))
    IN  IF dl = 0 \/ dl # Len(afterM) THEN [raised |-> "ValueError", value |-> NoneVal]
        ELSE IF y < 1 \/ d > DaysInMonth(y, m) THEN [raised |-> "ValueError", value |-> NoneVal]
        ELSE [raised |-> "", value |-> DateVal(y, m, d)]

RECURSIVE ZeroPad(_, _)
ZeroPad(n, width) ==
    IF width = 0 THEN <<>> ELSE Append(ZeroPad(n \div 10, width - 1), Digits[(n % 10) + 1])

\* date.isoformat(), the form in which a date leaves the server for the grid.
isoformat(v) == ZeroPad(v.y, 4) \o <<"-">> \o ZeroPad(v.m, 2) \o <<"-">> \o ZeroPad(v.d, 2)

----------------------------------------------------------------------------
(* The storage backend as the code sees it through spark.                  *)

TableName == <<"c", ".", "n", ".", "t">>          \* the table of the session

TwoPartName == <<"n", ".", "t">>                  \* the same table, catalog left out

NoName == <<>>                                    \* the input before anything is typed

MissingName == <<"c", ".", "n", ".", "u">>        \* a table that does not exist

\* What the user types into table-name-input before a load; a save reads the
\* input as it stands.
TableNames == {TableName, TwoPartName, MissingName}

CurrentCatalog == <<"c">>

\* df.schema of the target table, (column name, Spark type name): the table holds a
\* DateDATE column or it does not.
DatedSchema == <<[name |-> "id", dataType |-> "LongType"],
                 [name |-> "name", dataType |-> "StringType"],
                 [name |-> "DateDATE", dataType |-> "DateType"]>>

PlainSchema == <<[name |-> "id", dataType |-> "LongType"],
                 [name |-> "name", dataType |-> "StringType"]>>

Columns(schema) == [i \in 1..Len(schema) |-> schema[i].name]

\* spark.table(name): a three-part name, or a two-part name in the current catalog.
TableExists(table_name) ==
    LET parts == Split(table_name, ".")
    IN  \/ parts = <<<<"c">>, <<"n">>, <<"t">>>>
        \/ <<CurrentCatalog>> \o parts = <<<<"c">>, <<"n">>, <<"t">>>>

KeyRow(catalog, schema, table, column) ==
    [table_catalog |-> catalog, table_schema |-> schema, table_name |-> table, column_name |-> column]

\* Contents of the metadata table: the key of the session's table is declared or not;
\* a row of another table is always there.
MetaWithKey == <<KeyRow(<<"c">>, <<"n">>, <<"u">>, "name"), KeyRow(<<"c">>, <<"n">>, <<"t">>, "id")>>

MetaWithoutKey == <<KeyRow(<<"c">>, <<"n">>, <<"u">>, "name")>>

\* The metadata table when it cannot be read (dropped, or no permission).
NoMeta == <<>>

DatedTable == <<[id |-> 1, name |-> "a", DateDATE |-> DateVal(2024, 2, 13)],
                [id |-> 2, name |-> "b", DateDATE |-> DateVal(2024, 2, 13)]>>

PlainTable == <<[id |-> 1, name |-> "a"], [id |-> 2, name |-> "b"]>>

\* What the Dash JSON encoder makes of a cell on its way to the grid.
JsonCell(dataType, v) ==
    IF dataType = "DateType" /\ v.k = "date" THEN StrVal(isoformat(v)) ELSE v

ToJson(data, schema) ==
    [i \in 1..Len(data) |->
        [c \in DOMAIN data[i] |->
            LET f == CHOOSE j \in 1..Len(schema) : schema[j].name = c
            IN  JsonCell(schema[f].dataType, data[i][c])]]

\* spark.createDataFrame(rows, schema): a DateType field takes a date or None.
VerifyRows(rows, schema) ==
    \A i \in 1..Len(rows) : \A j \in 1..Len(schema) :
        schema[j].dataType = "DateType" => rows[i][schema[j].name].k \in {"date", "none"}

KeysMatch(t, s, unique_keys) ==
    \A i \in 1..Len(unique_keys) : t[unique_keys[i]] = s[unique_keys[i]]

\* Variant: a merge that finds a target row matched by several source rows has
\* updated the matched rows before it aborts.
DeltaMerge_partial(target, source, unique_keys, columns_to_update) ==
    LET matches(t) == {j \in 1..Len(source) : \A i \in 1..Len(unique_keys) :
                                                t[unique_keys[i]] = source[j][unique_keys[i]]}
        updated == [i \in 1..Len(target) |->
                      IF matches(target[i]) = {} THEN target[i]
                      ELSE LET s == source[CHOOSE j \in matches(target[i]) : TRUE]
                           IN  [c \in DOMAIN target[i] |->
                                  IF c \in Range(columns_to_update) THEN s[c] ELSE target[i][c]]]
        unmatched(s) == \A i \in 1..Len(target) :
                            \E k \in 1..Len(unique_keys) :
                                target[i][unique_keys[k]] # s[unique_keys[k]]
    IN  IF \E i \in 1..Len(target) : Cardinality(matches(target[i])) > 1
        THEN [raised |-> "multiple source rows matched", table |-> updated]
        ELSE [raised |-> "", table |-> updated \o SelectSeq(source, unmatched)]

\* DeltaTable.merge(source, condition).whenMatchedUpdate(set).whenNotMatchedInsertAll()
\* .execute(): atomic; a target row matched by several source rows aborts the merge.
DeltaMerge(target, source, unique_keys, columns_to_update) ==
    LET matches(t) == {j \in 1..Len(source) : KeysMatch(t, source[j], unique_keys)}
        updated == [i \in 1..Len(target) |->
                      IF matches(target[i]) = {} THEN target[i]
                      ELSE LET s == source[CHOOSE j \in matches(target[i]) : TRUE]
                           IN  [c \in DOMAIN target[i] |->
                                  IF c \in Range(columns_to_update) THEN s[c] ELSE target[i][c]]]
        unmatched(s) == \A i \in 1..Len(target) : ~KeysMatch(target[i], s, unique_keys)
    IN  IF \E i \in 1..Len(target) : Cardinality(matches(target[i])) > 1
        THEN [raised |-> "multiple source rows matched", table |-> target]
        ELSE [raised |-> "", table |-> updated \o SelectSeq(source, unmatched)]

----------------------------------------------------------------------------
(* databricks_utils.py                                                     *)

\* Unpacking table_name.split(".") into three names raises ValueError unless there
\* are exactly three segments; only then is the metadata table read and filtered,
\* and spark.table raises AnalysisException when it cannot read it.
get_primary_keys(table_name) ==
    LET parts == Split(table_name, ".")
        df_keys == SelectSeq(meta_table,
                             LAMBDA r : /\ r.table_catalog = parts[1]
                                        /\ r.table_schema = parts[2]
                                        /\ r.table_name = parts[3])
    IN  IF Len(parts) # 3
        THEN [raised |-> "ValueError", queried |-> FALSE, key_list |-> <<>>]
        ELSE IF ~meta_available
        THEN [raised |-> "AnalysisException", queried |-> TRUE, key_list |-> <<>>]
        ELSE [raised |-> "", queried |-> TRUE,
              key_list |-> [i \in 1..Len(df_keys) |-> df_keys[i].column_name]]

\* The store's list, extended by int(rowId) of every reported cell.
track_changes(changed_cells, changed_rows_id) ==
    LET base == IF Len(changed_rows_id) = 0 THEN <<>> ELSE changed_rows_id
        ids == [i \in 1..Len(changed_cells) |-> PyInt(changed_cells[i].rowId)]
    IN  IF Len(changed_cells) > 0
        THEN IF \E i \in 1..Len(ids) : ids[i].raised # ""
             THEN [raised |-> "ValueError", value |-> changed_rows_id]
             ELSE [raised |-> "", value |-> base \o [i \in 1..Len(ids) |-> ids[i].value]]
        ELSE [raised |-> "", value |-> base]

NoMerge == <<>>

\* str(e) of what get_primary_keys raised.
KeyLookupCause(raised) ==
    IF raised = "ValueError" THEN "not three values to unpack" ELSE "metadata table not found"

\* Variant: the check for declared keys is left out.
KeysMissing_ignored(unique_keys) == FALSE

\* "if not unique_keys": the save is refused when no key column is declared.
KeysMissing(unique_keys) == Len(unique_keys) = 0

\* Variant: every column is updated, key columns included.
ColumnsToUpdate_all(columns, unique_keys) == columns

\* Variant: matched rows are left as they are.
ColumnsToUpdate_none(columns, unique_keys) == <<>>

\* The columns of the changed rows that are no key columns.
ColumnsToUpdate(columns, unique_keys) == SelectSeq(columns, LAMBDA c : c \notin Range(unique_keys))

SaveFailure(table_name, cause) ==
    [raised |-> "Failed to save data to Databricks table", table |-> table_name,
     cause |-> cause, merges |-> NoMerge, target |-> target_table]

save_to_databricks(changed_rows_id, table_name, row_data) ==
    LET keys == get_primary_keys(table_name)
        unique_keys == keys.key_list
        rows == [i \in 1..Len(changed_rows_id) |-> PyIndex(row_data, changed_rows_id[i])]
        schema == target_schema
        merge_condition == [i \in 1..Len(unique_keys) |->
                              [target |-> unique_keys[i], source |-> unique_keys[i]]]
        columns_to_update == ColumnsToUpdate(Columns(schema), unique_keys)
        merged == DeltaMerge(target_table, rows, unique_keys, columns_to_update)
        call == [source |-> rows, merge_condition |-> merge_condition,
                 columns_to_update |-> columns_to_update, insert_all |-> TRUE]
    IN  IF keys.raised # "" THEN SaveFailure(table_name, KeyLookupCause(keys.raised))
        ELSE IF KeysMissing(unique_keys)
        THEN SaveFailure(table_name, "Keine Primaerschluessel gefunden")
        ELSE IF \E i \in 1..Len(changed_rows_id) : ~PyIndexOk(row_data, changed_rows_id[i])
        THEN SaveFailure(table_name, "list index out of range")
        ELSE IF ~TableExists(table_name) THEN SaveFailure(table_name, "table not found")
        ELSE IF ~VerifyRows(rows, schema) THEN SaveFailure(table_name, "field type mismatch")
        ELSE IF \E i \in 1..Len(unique_keys) : unique_keys[i] \notin Range(Columns(schema))
        THEN SaveFailure(table_name, "column cannot be resolved")
        ELSE IF merged.raised # ""
        THEN [raised |-> "Failed to save data to Databricks table", table |-> table_name,
              cause |-> merged.raised, merges |-> <<call>>, target |-> merged.table]
        ELSE [raised |-> "", table |-> table_name, cause |-> "",
              merges |-> <<call>>, target |-> merged.table]

\* The loop of save_data over row_data: every row that has a DateDATE entry, in order.
ConvertDates(row_data) ==
    LET has(i) == "DateDATE" \in DOMAIN row_data[i]
        bad == {i \in 1..Len(row_data) : has(i) /\ strptime(row_data[i].DateDATE).raised # ""}
        first == CHOOSE i \in bad : \A j \in bad : i <= j
    IN  IF bad # {}
        THEN [raised |-> strptime(row_data[first].DateDATE).raised, row |-> first, rows |-> row_data]
        ELSE [raised |-> "", row |-> 0,
              rows |-> [i \in 1..Len(row_data) |->
                          IF has(i)
                          THEN [row_data[i] EXCEPT !.DateDATE = strptime(row_data[i].DateDATE).value]
                          ELSE row_data[i]]]

Status(text, wrapped, table, cause) ==
    [text |-> text, wrapped |-> wrapped, table |-> table, cause |-> cause]

NoStatus == Status("", "", <<>>, "")

save_data(n_clicks, changed_rows_id, table_name, row_data) ==
    LET conv == ConvertDates(row_data)
        saved == save_to_databricks(changed_rows_id, table_name, conv.rows)
    IN  IF n_clicks > 0
        THEN IF conv.raised = "ValueError"
             THEN [status |-> Status("Error with saving data", "", <<>>,
                                     "Error converting DateDATE to date"),
                   merges |-> NoMerge, target |-> target_table]
             ELSE IF conv.raised # ""
             THEN [status |-> Status("Error with saving data", "", <<>>,
                                     "strptime() argument 1 must be str"),
                   merges |-> NoMerge, target |-> target_table]
             ELSE IF saved.raised # ""
             THEN [status |-> Status("Error with saving data", saved.raised, saved.table, saved.cause),
                   merges |-> saved.merges, target |-> saved.target]
             ELSE [status |-> Status("Data was successfully saved!", "", <<>>, ""),
                   merges |-> saved.merges, target |-> saved.target]
        ELSE [status |-> Status("No Changes to be saved.", "", <<>>, ""),
              merges |-> NoMerge, target |-> target_table]


load_data(table_name) ==
    IF TableExists(table_name)
    THEN [raised |-> "", data |-> target_table, table_schema |-> target_schema]
    ELSE [raised |-> "Failed to load data from table", data |-> <<>>, table_schema |-> <<>>]

\* Variant: a type that is not in the table has no grid type.
type_mapping_strict(dataType) ==
    CASE dataType \in {"IntegerType", "LongType", "FloatType", "DoubleType", "DecimalType"}
           -> "numericColumn"
      [] dataType = "StringType" -> "textColumn"
      [] dataType = "BooleanType" -> "booleanColumn"
      [] dataType \in {"DateType", "TimestampType"} -> "dateColumn"
      [] OTHER -> "KeyError"

\* type_mapping.get(type(field.dataType).__name__, "textColumn")
type_mapping(dataType) ==
    CASE dataType \in {"IntegerType", "LongType", "FloatType", "DoubleType", "DecimalType"}
           -> "numericColumn"
      [] dataType = "StringType" -> "textColumn"
      [] dataType = "BooleanType" -> "booleanColumn"
      [] dataType \in {"DateType", "TimestampType"} -> "dateColumn"
      [] OTHER -> "textColumn"

get_column_types(table_schema) ==
    [i \in 1..Len(table_schema) |->
        [column |-> table_schema[i].name, type |-> type_mapping(table_schema[i].dataType)]]

\* Python's True == key for a key that is a str: never equal.
EqualsTrue(key) == FALSE

KeyStyle == "rgba(241, 137, 0, 0.2)"

NoStyle == ""

generate_column_defs(data, table_schema, table_name) ==
    LET column_types == get_column_types(table_schema)
        keys == get_primary_keys(table_name)
        unique_keys == keys.key_list
    IN  IF keys.raised # "" THEN [raised |-> keys.raised, columnDefs |-> <<>>]
        ELSE [raised |-> "",
              columnDefs |->
                [i \in 1..Len(column_types) |->
                    [headerName |-> column_types[i].column,
                     field |-> column_types[i].column,
                     editable |-> ~(\E k \in 1..Len(unique_keys) : EqualsTrue(unique_keys[k])),
                     type |-> column_types[i].type,
                     filter |-> TRUE,
                     cellStyle |-> IF column_types[i].column \in Range(unique_keys)
                                   THEN KeyStyle ELSE NoStyle]]]

LoadResult(data, defs, status) == [rowData |-> data, columnDefs |-> defs, status |-> status]

load_data_callback(n_clicks, n_submit, table_name) ==
    LET loaded == load_data(table_name)
        defs == generate_column_defs(loaded.data, loaded.table_schema, table_name)
    IN  IF (n_clicks > 0 \/ n_submit > 0) /\ Len(table_name) > 0
        THEN IF loaded.raised # ""
             THEN LoadResult(<<>>, <<>>,
                             Status("Error loading data", loaded.raised, table_name, "table not found"))
             ELSE IF Len(loaded.data) > 0
             THEN IF defs.raised # ""
                  THEN LoadResult(<<>>, <<>>,
                                  Status("Error loading data", "", <<>>, KeyLookupCause(defs.raised)))
                  ELSE LoadResult(ToJson(loaded.data, loaded.table_schema), defs.columnDefs,
                                  Status("Data successfully loaded", "", <<>>, ""))
             ELSE LoadResult(<<>>, <<>>,
                             Status("no Table name provided or button clicked", "", <<>>, ""))
        ELSE LoadResult(<<>>, <<>>, Status("no table was selected", "", <<>>, ""))

----------------------------------------------------------------------------
(* The grid and the user.                                                  *)

\* rowId as the grid reports it: the position of the row in rowData, as a string;
\* "-1" names no row of the grid.
RowIds == {<<"0">>, <<"1">>, <<"-", "1">>}

BadDate == StrVal(<<"1", "3", "/", "0", "2", "/", "2", "0", "2", "4">>)

\* A date typed without the leading zeros, which strptime accepts.
ShortDate == StrVal(<<"2", "0", "2", "4", "-", "3", "-", "1">>)

\* What a user types into a cell.
CellInputs == <<[colId |-> "name", value |-> "bb"],
                [colId |-> "DateDATE", value |-> BadDate],
                [colId |-> "id", value |-> 3],
                [colId |-> "DateDATE", value |-> ShortDate]>>

\* One reported cell: a rowId and one of the inputs; a rowId that names no row of
\* the grid changes no cell, whatever the input.
CellChoices(grid) ==
    {c \in RowIds \X (1..Len(CellInputs)) :
        (PyInt(c[1]).value < 0 \/ PyInt(c[1]).value >= Len(grid)) => c[2] = 1}

\* The cellValueChanged payload for a sequence of such choices.
ChangedCells(choices) ==
    [i \in 1..Len(choices) |->
        [rowId |-> choices[i][1],
         colId |-> CellInputs[choices[i][2]].colId,
         value |-> CellInputs[choices[i][2]].value]]

RECURSIVE SeqsUpTo(_, _)
SeqsUpTo(S, n) ==
    IF n = 0 THEN {<<>>}
    ELSE LET shorter == SeqsUpTo(S, n - 1)
         IN  shorter \cup {Append(q, x) : q \in {p \in shorter : Len(p) = n - 1}, x \in S}

\* The events of the grid: the user edits one cell at a time, so an event reports
\* one cell; the empty list is what the property holds before any edit.
EditEvents(grid) == SeqsUpTo(CellChoices(grid), 1)

\* The row of the grid an entry is about, 0 when the grid holds no such row.
RowOf(grid, entry) ==
    LET id == PyInt(entry.rowId)
    IN  IF id.raised = "" /\ id.value >= 0 /\ id.value < Len(grid) THEN id.value + 1 ELSE 0

Editable(defs, colId) == \E i \in 1..Len(defs) : defs[i].field = colId /\ defs[i].editable

\* The grid changes a cell only if its column is editable and the value is new.
CanEdit(grid, defs, entry) ==
    RowOf(grid, entry) # 0 =>
        /\ Editable(defs, entry.colId)
        /\ grid[RowOf(grid, entry)][entry.colId] # entry.value

ApplyCell(grid, entry) ==
    IF RowOf(grid, entry) = 0 THEN grid
    ELSE [grid EXCEPT ![RowOf(grid, entry)][entry.colId] = entry.value]

RECURSIVE CanEditAll(_, _, _)
CanEditAll(grid, defs, cells) ==
    IF Len(cells) = 0 THEN TRUE
    ELSE /\ CanEdit(grid, defs, Head(cells))
         /\ CanEditAll(ApplyCell(grid, Head(cells)), defs, Tail(cells))

RECURSIVE ApplyCells(_, _)
ApplyCells(grid, cells) ==
    IF Len(cells) = 0 THEN grid ELSE ApplyCells(ApplyCell(grid, Head(cells)), Tail(cells))

NoLookup == [raised |-> "", queried |-> FALSE, key_list |-> <<>>]

\* What the last step was: a save (with the table and the store before it and the
\* merges it issued), a key lookup (with its outcome), or anything else.
Last(op, before, changed, merges, keys) ==
    [op |-> op, before |-> before, changed |-> changed, merges |-> merges, keys |-> keys]

NoSave == Last("", <<>>, <<>>, NoMerge, NoLookup)

Loaded == Last("load", <<>>, <<>>, NoMerge, NoLookup)

\* Variant: a successful save empties the store.
StoreAfterSave_cleared(changed_rows_id, status) ==
    IF status.text = "Data was successfully saved!" THEN <<>> ELSE changed_rows_id

\* save_data has no Output on changed-rows-store: the store keeps its list.
StoreAfterSave(changed_rows_id, status) == changed_rows_id

----------------------------------------------------------------------------
(* The state machine.                                                      *)

Init ==
    /\ \E t \in {<<DatedTable, DatedSchema>>, <<PlainTable, PlainSchema>>} :
          target_table = t[1] /\ target_schema = t[2]
    /\ meta_available \in BOOLEAN
    /\ meta_table \in (IF meta_available THEN {MetaWithKey, MetaWithoutKey} ELSE {NoMeta})
    /\ table_name_input = NoName
    /\ rowData = <<>>
    /\ columnDefs = <<>>
    /\ changed_rows_store = <<>>
    /\ loading_output_1 = NoStatus
    /\ loading_output_2 = NoStatus
    /\ edited_cells = {}
    /\ last = NoSave
    /\ other_session = "editing"

\* With table_name in table-name-input, load-data-button is clicked or Enter is
\* pressed: load_data_callback runs and its three outputs replace rowData, columnDefs
\* and the load status.
LoadData(table_name, n_clicks, n_submit) ==
    LET out == load_data_callback(n_clicks, n_submit, table_name)
    IN  /\ table_name_input' = table_name
        /\ rowData' = out.rowData
        /\ columnDefs' = out.columnDefs
        /\ loading_output_1' = out.status
        /\ edited_cells' = {}
        /\ last' = Loaded
        /\ UNCHANGED <<target_table, target_schema, meta_table, meta_available, changed_rows_store, loading_output_2,
                       other_session>>

\* The grid reports changed cells: it has put the new values into rowData, and
\* track_changes runs; its return value replaces the store unless it raised.
CellValueChanged(changed_cells) ==
    LET out == track_changes(changed_cells, changed_rows_store)
    IN  /\ CanEditAll(rowData, columnDefs, changed_cells)
        /\ Len(out.value) <= MaxChanged
        /\ rowData' = ApplyCells(rowData, changed_cells)
        /\ changed_rows_store' = out.value
        /\ edited_cells' = edited_cells \cup
              {<<RowOf(rowData, changed_cells[i]), changed_cells[i].colId>> :
                  i \in {j \in 1..Len(changed_cells) : RowOf(rowData, changed_cells[j]) # 0}}
        /\ last' = NoSave
        /\ UNCHANGED <<target_table, target_schema, meta_table, meta_available, table_name_input, columnDefs,
                       loading_output_1, loading_output_2, other_session>>

\* With table_name in table-name-input, Saving-button is clicked: save_data runs; its
\* return value is the save status and the merge it executed, if any, has changed
\* the table.
SaveData(table_name, n_clicks) ==
    LET out == save_data(n_clicks, changed_rows_store, table_name, rowData)
    IN  /\ table_name_input' = table_name
        /\ target_table' = out.target
        /\ loading_output_2' = out.status
        /\ changed_rows_store' = StoreAfterSave(changed_rows_store, out.status)
        /\ last' = Last("save", target_table, changed_rows_store, out.merges, NoLookup)
        /\ UNCHANGED <<target_schema, meta_table, meta_available, rowData, columnDefs, loading_output_1,
                       edited_cells, other_session>>

\* What the other session writes into a cell.
OtherInputs == <<[colId |-> "DateDATE", value |-> NoneVal]>>

\* The other session saves its one edit: one cell of one row of the table.
OtherSessionWrite(i, w) ==
    /\ other_session = "editing"
    /\ w.colId \in DOMAIN target_table[i]
    /\ target_table[i][w.colId] # w.value
    /\ target_table' = [target_table EXCEPT ![i][w.colId] = w.value]
    /\ other_session' = "saved"
    /\ last' = NoSave
    /\ UNCHANGED <<target_schema, meta_table, meta_available, table_name_input, rowData, columnDefs, changed_rows_store,
                   loading_output_1, loading_output_2, edited_cells>>

Next ==
    \/ \E table_name \in TableNames : LoadData(table_name, 1, 0)
    \/ LoadData(TableName, 0, 1)
    \/ \E choices \in EditEvents(rowData) :
          CellValueChanged(ChangedCells(choices))
    \/ SaveData(table_name_input, 1)
    \/ \E i \in 1..Len(target_table), w \in 1..Len(OtherInputs) :
          OtherSessionWrite(i, OtherInputs[w])

Spec == Init /\ [][Next]_vars

----------------------------------------------------------------------------
(* The Change Tracker on its own: a session that has loaded its table and  *)
(* from then on only edits cells.                                          *)

TrackInit ==
    /\ \E t \in {<<DatedTable, DatedSchema>>, <<PlainTable, PlainSchema>>} :
          target_table = t[1] /\ target_schema = t[2]
    /\ meta_available = TRUE
    /\ meta_table \in (IF meta_available THEN {MetaWithKey, MetaWithoutKey} ELSE {NoMeta})
    /\ table_name_input = TableName
    /\ rowData = load_data_callback(1, 0, TableName).rowData
    /\ columnDefs = load_data_callback(1, 0, TableName).columnDefs
    /\ loading_output_1 = load_data_callback(1, 0, TableName).status
    /\ changed_rows_store = <<>>
    /\ loading_output_2 = NoStatus
    /\ edited_cells = {}
    /\ last = Loaded
    /\ other_session = "editing"

TrackNext ==
    \E choices \in EditEvents(rowData) :
        CellValueChanged(ChangedCells(choices))

TrackSpec == TrackInit /\ [][TrackNext]_vars

----------------------------------------------------------------------------
(* The Key Resolver on its own: get_primary_keys applied to any identifier *)
(* of up to MaxNameLen characters.                                         *)

IdentifierChars == {"c", "n", "t", "."}

KeyInit ==
    /\ \E t \in {<<DatedTable, DatedSchema>>, <<PlainTable, PlainSchema>>} :
          target_table = t[1] /\ target_schema = t[2]
    /\ meta_available \in BOOLEAN
    /\ meta_table \in (IF meta_available THEN {MetaWithKey, MetaWithoutKey} ELSE {NoMeta})
    /\ table_name_input \in SeqsUpTo(IdentifierChars, MaxNameLen)
    /\ rowData = <<>>
    /\ columnDefs = <<>>
    /\ changed_rows_store = <<>>
    /\ loading_output_1 = NoStatus
    /\ loading_output_2 = NoStatus
    /\ edited_cells = {}
    /\ last = NoSave
    /\ other_session = "editing"

ResolveKeys ==
    /\ last.op # "keys"
    /\ last' = Last("keys", <<>>, <<>>, NoMerge, get_primary_keys(table_name_input))
    /\ UNCHANGED <<target_table, target_schema, meta_table, meta_available, table_name_input, rowData,
                   columnDefs, changed_rows_store, loading_output_1, loading_output_2,
                   edited_cells, other_session>>

KeyNext == ResolveKeys

KeySpec == KeyInit /\ [][KeyNext]_vars

----------------------------------------------------------------------------
(* The Schema Translator on its own: get_column_types applied to any schema *)
(* of up to MaxFields fields.                                               *)

\* Class names of pyspark.sql.types: those of type_mapping and three others.
TypeNames == {"IntegerType", "LongType", "FloatType", "DoubleType", "DecimalType",
              "StringType", "BooleanType", "DateType", "TimestampType",
              "ShortType", "BinaryType", "ArrayType"}

FieldNames == <<"f1", "f2", "f3", "f4">>

Schemas ==
    {[i \in 1..Len(q) |-> [name |-> FieldNames[i], dataType |-> q[i]]] :
        q \in SeqsUpTo(TypeNames, MaxFields)}

TypeInit ==
    /\ target_schema \in Schemas
    /\ target_table = <<>>
    /\ meta_available = TRUE
    /\ meta_table = MetaWithoutKey
    /\ table_name_input = NoName
    /\ rowData = <<>>
    /\ columnDefs = <<>>
    /\ changed_rows_store = <<>>
    /\ loading_output_1 = NoStatus
    /\ loading_output_2 = NoStatus
    /\ edited_cells = {}
    /\ last = NoSave
    /\ other_session = "editing"

TranslateSchema ==
    /\ last.op # "types"
    /\ last' = [op |-> "types", column_types |-> get_column_types(target_schema)]
    /\ UNCHANGED <<target_table, target_schema, meta_table, meta_available, table_name_input,
                   rowData, columnDefs, changed_rows_store, loading_output_1, loading_output_2,
                   edited_cells, other_session>>

TypeNext == TranslateSchema

TypeSpec == TypeInit /\ [][TypeNext]_vars

----------------------------------------------------------------------------
(* Properties.                                                             *)

SaveJustRan == last.op = "save"

SaveSucceeded == SaveJustRan /\ loading_output_2.text = "Data was successfully saved!"

SaveFailed == SaveJustRan /\ loading_output_2.text = "Error with saving data"

NoPrimaryKey == "Keine Primaerschluessel gefunden"

DateErrors == {"Error converting DateDATE to date", "strptime() argument 1 must be str"}

\* The metadata rows of an identifier of three segments.
DeclaredRows(table_name) ==
    {i \in 1..Len(meta_table) :
        meta_available /\
        <<meta_table[i].table_catalog, meta_table[i].table_schema, meta_table[i].table_name>>
            = Split(table_name, ".")}

DeclaredKeys(table_name) == {meta_table[i].column_name : i \in DeclaredRows(table_name)}

\* The identifier names a table that has no row in the metadata table.
NoKeyDeclared(table_name) ==
    meta_available /\ Len(Split(table_name, ".")) = 3 /\ DeclaredRows(table_name) = {}

\* A DateDATE cell that the conversion of save_data accepts.
DateConverts(row) ==
    "DateDATE" \in DOMAIN row => row.DateDATE.k = "str" /\ strptime(row.DateDATE).raised = ""

AllDatesConvert(rows) == \A i \in 1..Len(rows) : DateConverts(rows[i])

InBounds(index, rows) == index >= 0 /\ index < Len(rows)

BagOfSeq(q) == [x \in Range(q) |-> Cardinality({i \in 1..Len(q) : q[i] = x})]

C2_OneSourceRowPerIndex ==
    (SaveJustRan /\ last.merges # NoMerge
       /\ \A k \in 1..Len(changed_rows_store) : InBounds(changed_rows_store[k], rowData)) =>
        LET source == last.merges[1].source
            rows == ConvertDates(rowData).rows
            indices == Range(changed_rows_store)
        IN  /\ Len(source) = Cardinality(indices)
            /\ \A i \in indices : Cardinality({k \in 1..Len(source) : source[k] = rows[i + 1]}) >= 1
            /\ \A k \in 1..Len(source) : \E i \in indices : source[k] = rows[i + 1]

\* C3: no row index occurs twice in the stored changed-row collection.
C3_EachIndexOnce ==
    \A i, j \in 1..Len(changed_rows_store) :
        i # j => changed_rows_store[i] # changed_rows_store[j]

\* Edit events the tracker may be handed: up to two cells of rows 2, 5, 7 or 1.
TrackerEvents ==
    {[i \in 1..Len(q) |-> [rowId |-> q[i]]] :
        q \in SeqsUpTo({<<"2">>, <<"5">>, <<"7">>, <<"1">>}, 2)}

Event25 == <<[rowId |-> <<"2">>], [rowId |-> <<"5">>]>>

Event57 == <<[rowId |-> <<"5">>], [rowId |-> <<"7">>]>>

\* C4: from any stored collection, recording event A then event B leaves the same
\* collection as recording B then A; [2,5] then [5,7] and [5,7] then [2,5] from the
\* empty collection both leave the three indices 2, 5 and 7; an event with no entry
\* leaves the collection as it is.
C4_SameCollectionEitherOrder ==
    /\ \A A, B \in TrackerEvents :
          track_changes(B, track_changes(A, changed_rows_store).value).value
            = track_changes(A, track_changes(B, changed_rows_store).value).value
    /\ Len(track_changes(Event57, track_changes(Event25, <<>>).value).value) = 3
    /\ Len(track_changes(Event25, track_changes(Event57, <<>>).value).value) = 3
    /\ track_changes(<<>>, changed_rows_store).value = changed_rows_store

\* What does hold of the two orders: the same indices, each the same number of times.
SameBagEitherOrder ==
    \A A, B \in TrackerEvents :
        BagOfSeq(track_changes(B, track_changes(A, changed_rows_store).value).value)
          = BagOfSeq(track_changes(A, track_changes(B, changed_rows_store).value).value)

\* C5: a save that reports success issued exactly one merge; its match condition is
\* equality of target and source on every declared key column; its update set is
\* exactly the columns of the table that are no key columns; rows without a match
\* are inserted in full. On the table: every row that was there keeps its key, takes
\* the non-key values of the source row matching it, and every source row matching
\* no row is in the table. For cat.ns.t1 = [{id:1,name:a},{id:2,name:b}] with key id
\* and row 1 renamed to bb: source {id:2,name:bb}, condition on id, update name only.
C5_MergeShape ==
    SaveSucceeded =>
        /\ Len(last.merges) = 1
        /\ LET m == last.merges[1]
               keys == DeclaredKeys(table_name_input)
               nonkeys == Range(Columns(target_schema)) \ keys
               matches(t, r) == \A k \in keys : t[k] = r[k]
           IN  /\ keys # {}
               /\ {m.merge_condition[i].target : i \in 1..Len(m.merge_condition)} = keys
               /\ \A i \in 1..Len(m.merge_condition) :
                     m.merge_condition[i].target = m.merge_condition[i].source
               /\ Range(m.columns_to_update) = nonkeys
               /\ m.insert_all
               /\ Len(target_table) >= Len(last.before)
               /\ \A i \in 1..Len(last.before) : \A k \in keys :
                     target_table[i][k] = last.before[i][k]
               /\ \A i \in 1..Len(last.before) : \A j \in 1..Len(m.source) :
                     matches(last.before[i], m.source[j]) =>
                        \A c \in nonkeys : target_table[i][c] = m.source[j][c]
               /\ \A j \in 1..Len(m.source) :
                     (\A i \in 1..Len(last.before) : ~matches(last.before[i], m.source[j])) =>
                        \E i \in (Len(last.before) + 1)..Len(target_table) :
                            target_table[i] = m.source[j]
               /\ (/\ last.before = PlainTable
                   /\ rowData = <<[id |-> 1, name |-> "a"], [id |-> 2, name |-> "bb"]>>
                   /\ changed_rows_store = <<1>>) =>
                      /\ m.source = <<[id |-> 2, name |-> "bb"]>>
                      /\ m.merge_condition = <<[target |-> "id", source |-> "id"]>>
                      /\ m.columns_to_update = <<"name">>
                      /\ target_table = <<[id |-> 1, name |-> "a"], [id |-> 2, name |-> "bb"]>>

C5_Witness ==
    /\ SaveSucceeded
    /\ last.before = PlainTable
    /\ rowData = <<[id |-> 1, name |-> "a"], [id |-> 2, name |-> "bb"]>>
    /\ changed_rows_store = <<1>>
    /\ target_table[2].name = "bb"

\* C6: a save changes a cell of a row of the table only if that cell was edited in
\* the grid row with the same key: every other cell keeps the value it had in the
\* table right before the save.
C6_OnlyEditedCellsChange ==
    SaveJustRan =>
        \A i \in 1..Len(last.before) : \A c \in DOMAIN last.before[i] :
            target_table[i][c] # last.before[i][c] =>
                \E g \in 1..Len(rowData) :
                    /\ <<g, c>> \in edited_cells
                    /\ \A k \in DeclaredKeys(table_name_input) : rowData[g][k] = last.before[i][k]

\* An identifier of exactly three non-empty segments.
WellFormed(table_name) ==
    LET parts == Split(table_name, ".")
    IN  Len(parts) = 3 /\ \A i \in 1..3 : Len(parts[i]) > 0

\* C7: for an identifier that is not three non-empty segments, the key lookup fails
\* with the unpacking error and the metadata table is not queried.
C7_MalformedRejected ==
    (last.op = "keys" /\ ~WellFormed(table_name_input)) =>
        /\ last.keys.raised = "ValueError"
        /\ ~last.keys.queried

\* What does hold: the lookup fails without querying exactly when the identifier
\* does not split into three segments, empty or not.
KeyLookupFailsUnlessThreeSegments ==
    last.op = "keys" =>
        /\ (last.keys.raised = "ValueError") = (Len(Split(table_name_input, ".")) # 3)
        /\ (last.keys.raised = "AnalysisException") =
              (Len(Split(table_name_input, ".")) = 3 /\ ~meta_available)
        /\ last.keys.queried = (Len(Split(table_name_input, ".")) = 3)

\* C8: when a save gets as far as projecting the grid (a key is declared and every
\* date converts) and some recorded index is no position of the grid, negative or
\* too large, it fails with the index error and issues no merge.
C8_OutOfRangeFails ==
    (/\ SaveJustRan
     /\ DeclaredKeys(table_name_input) # {}
     /\ AllDatesConvert(rowData)
     /\ \E k \in 1..Len(changed_rows_store) : ~InBounds(changed_rows_store[k], rowData)) =>
        /\ SaveFailed
        /\ loading_output_2.cause = "list index out of range"
        /\ last.merges = NoMerge

\* C9: a save ends with the date conversion error exactly when some recorded row of
\* the grid holds, in a date column, a string that is no date; what the other rows
\* hold never makes it fail.
C9_DatesOfChangedRowsOnly ==
    SaveJustRan =>
        ((loading_output_2.cause \in DateErrors) =
            (\E k \in 1..Len(changed_rows_store) :
                /\ InBounds(changed_rows_store[k], rowData)
                /\ \E f \in 1..Len(target_schema) :
                      /\ target_schema[f].dataType \in {"DateType", "TimestampType"}
                      /\ LET v == rowData[changed_rows_store[k] + 1][target_schema[f].name]
                         IN  v.k = "str" /\ strptime(v).raised # ""))

\* C10: a save leaves the store as it was, whether it fails or succeeds; after a
\* successful one, saving again at once hands the backend the same source rows.
C10_SaveKeepsStore ==
    SaveJustRan =>
        /\ changed_rows_store = last.changed
        /\ SaveSucceeded =>
              LET again == save_data(1, changed_rows_store, table_name_input, rowData)
              IN  /\ again.merges # NoMerge
                  /\ again.merges[1].source = last.merges[1].source

C10_Witness ==
    /\ SaveSucceeded
    /\ Len(changed_rows_store) > 0
    /\ Len(last.merges[1].source) > 0

LoadJustRan == last.op = "load"

LoadSucceeded == LoadJustRan /\ loading_output_1.text = "Data successfully loaded"

\* C11: right after a load the changed-row collection is empty, so a save that
\* follows at once hands the backend no row.
C11_LoadClearsStore ==
    LoadJustRan =>
        /\ changed_rows_store = <<>>
        /\ LET next == save_data(1, changed_rows_store, table_name_input, rowData)
           IN  next.merges # NoMerge => Len(next.merges[1].source) = 0

\* C12: the column definitions of a successful load mark every declared key column
\* as not editable and styled as a key, and every other column as editable and
\* unstyled; and no cell of a key column is ever edited in the grid.
C12_KeyColumnsNotEditable ==
    /\ LoadSucceeded =>
          \A i \in 1..Len(columnDefs) :
              IF columnDefs[i].field \in DeclaredKeys(table_name_input)
              THEN ~columnDefs[i].editable /\ columnDefs[i].cellStyle = KeyStyle
              ELSE columnDefs[i].editable /\ columnDefs[i].cellStyle = NoStyle
    /\ \A e \in edited_cells : e[2] \notin DeclaredKeys(TableName)

\* What does hold of the column definitions: key columns are styled, and every
\* column, key or not, is editable.
KeyColumnsStyledOnly ==
    LoadSucceeded =>
        \A i \in 1..Len(columnDefs) :
            /\ columnDefs[i].editable
            /\ (columnDefs[i].cellStyle = KeyStyle) =
                  (columnDefs[i].field \in DeclaredKeys(table_name_input))

\* C13: a load of a table that can be read and has rows succeeds even when the key
\* lookup fails (identifier not of three segments, or metadata table unreadable):
\* rows and column definitions are returned, and no column is marked as key.
C13_KeyLookupFailureTolerated ==
    (/\ LoadJustRan
     /\ TableExists(table_name_input)
     /\ Len(target_table) > 0
     /\ get_primary_keys(table_name_input).raised # "") =>
        /\ loading_output_1.text = "Data successfully loaded"
        /\ rowData = ToJson(target_table, target_schema)
        /\ Len(columnDefs) = Len(target_schema)
        /\ \A i \in 1..Len(columnDefs) : columnDefs[i].cellStyle = NoStyle

DateColumns == {target_schema[f].name : f \in {g \in 1..Len(target_schema) :
                                                   target_schema[g].dataType = "DateType"}}

\* A reloaded grid row holds what was saved as source row s: the same value in every
\* column that is no date column, and in a date column a string that parses, by the
\* fixed format, to the date that was saved.
HoldsSaved(r, s) ==
    \A c \in DOMAIN s :
        IF c \in DateColumns
        THEN r[c].k = "str" /\ strptime(r[c]).raised = "" /\ strptime(r[c]).value = s[c]
        ELSE r[c] = s[c]

\* C14: after a successful save, loading the same table succeeds and returns, for
\* every source row of the merge, a row with the same key values that holds what was
\* saved; the saved date is the one the grid's string parses to.
C14_RoundTrip ==
    SaveSucceeded =>
        LET reloaded == load_data_callback(1, 0, table_name_input)
            source == last.merges[1].source
        IN  /\ reloaded.status.text = "Data successfully loaded"
            /\ \A j \in 1..Len(source) :
                  \E i \in 1..Len(reloaded.rowData) : HoldsSaved(reloaded.rowData[i], source[j])
            /\ \A k \in 1..Len(changed_rows_store) : \A c \in DateColumns :
                  PyIndex(ConvertDates(rowData).rows, changed_rows_store[k])[c]
                      = strptime(PyIndex(rowData, changed_rows_store[k])[c]).value

C14_Witness ==
    /\ SaveSucceeded
    /\ Len(last.merges[1].source) > 0
    /\ "DateDATE" \in DateColumns
    /\ \E k \in 1..Len(changed_rows_store) :
          /\ InBounds(changed_rows_store[k], rowData)
          /\ rowData[changed_rows_store[k] + 1].DateDATE = ShortDate
          /\ \E i \in 1..Len(target_table) : target_table[i].DateDATE = DateVal(2024, 3, 1)
          /\ \E i \in 1..Len(target_table) : target_table[i].name = "bb"

\* C15: the translation of a schema has one entry per field, in schema order, named
\* as the field; integer, long, float, double and decimal are numeric, string is
\* text, boolean is boolean, date and timestamp are date, anything else is text.
C15_SchemaTranslatorTotal ==
    last.op = "types" =>
        /\ Len(last.column_types) = Len(target_schema)
        /\ \A i \in 1..Len(target_schema) :
              LET t == target_schema[i].dataType
                  e == last.column_types[i]
              IN  /\ e.column = target_schema[i].name
                  /\ e.type \in {"numericColumn", "textColumn", "booleanColumn", "dateColumn"}
                  /\ (e.type = "numericColumn") =
                        (t \in {"IntegerType", "LongType", "FloatType", "DoubleType", "DecimalType"})
                  /\ (e.type = "booleanColumn") = (t = "BooleanType")
                  /\ (e.type = "dateColumn") = (t \in {"DateType", "TimestampType"})

C15_Witness ==
    /\ last.op = "types"
    /\ Len(last.column_types) = 2
    /\ target_schema[1].dataType = "BinaryType"
    /\ target_schema[2].dataType = "DecimalType"
    /\ last.column_types[1].type = "textColumn"
    /\ last.column_types[2].type = "numericColumn"

\* The load met an error of the backend: the table cannot be read, or it can and
\* has rows but the metadata table cannot be read.
LoadHitBackendError ==
    /\ LoadJustRan
    /\ \/ ~TableExists(table_name_input)
       \/ /\ Len(target_table) > 0
          /\ Len(Split(table_name_input, ".")) = 3
          /\ ~meta_available

\* C16: a load that met a backend error returns empty rows and empty column
\* definitions with an error status that names the table identifier and the cause;
\* and rows are never returned together with an error status.
C16_NoPartialLoad ==
    /\ LoadHitBackendError =>
          /\ rowData = <<>>
          /\ columnDefs = <<>>
          /\ loading_output_1.text = "Error loading data"
          /\ loading_output_1.table = table_name_input
          /\ loading_output_1.cause # ""
    /\ (LoadJustRan /\ ~LoadSucceeded) => (rowData = <<>> /\ columnDefs = <<>>)

\* What does hold: no rows and no column definitions without the success status,
\* and an error status with a cause after every backend error.
LoadAllOrNothing ==
    /\ LoadHitBackendError =>
          /\ loading_output_1.text = "Error loading data"
          /\ loading_output_1.cause # ""
    /\ (LoadJustRan /\ ~LoadSucceeded) => (rowData = <<>> /\ columnDefs = <<>>)

\* C17: a save issues at most one merge; when it reports an error the table is as
\* it was before the save, also when the merge was issued and aborted; when it
\* reports success every recorded row of the grid, dates converted, is a row of the
\* table.
C17_OneAtomicWrite ==
    SaveJustRan =>
        /\ Len(last.merges) <= 1
        /\ SaveFailed \/ SaveSucceeded
        /\ SaveFailed => target_table = last.before
        /\ SaveSucceeded =>
              /\ Len(last.merges) = 1
              /\ \A k \in 1..Len(changed_rows_store) :
                    \E i \in 1..Len(target_table) :
                        target_table[i] = PyIndex(ConvertDates(rowData).rows, changed_rows_store[k])

\* A save whose merge was issued and aborted.
C17_Witness ==
    /\ SaveFailed
    /\ Len(last.merges) = 1
    /\ Len(last.merges[1].source) = 2
    /\ loading_output_2.cause = "multiple source rows matched"
    /\ target_table = last.before

\* C18: after a save that succeeded, saving again at once (no edit, no other writer)
\* succeeds as well and leaves the table as the first save left it.
C18_ResendIdempotent ==
    SaveSucceeded =>
        LET again == save_data(1, changed_rows_store, table_name_input, rowData)
        IN  /\ again.status.text = "Data was successfully saved!"
            /\ again.target = target_table

\* Rows i and j of the table agree on every declared key column.
SameKey(i, j) == \A k \in DeclaredKeys(TableName) : target_table[i][k] = target_table[j][k]

\* C19: no two rows of the table share their key values.
C19_KeysStayUnique ==
    DeclaredKeys(TableName) # {} =>
        \A i, j \in 1..Len(target_table) : i # j => ~SameKey(i, j)

====
